---- MODULE Spec2Model ----
(***************************************************************************)
(* quick::variant<Ts...> (include/quick/experiments/variant.hpp) as a      *)
(* state machine: one variant object, its unique_ptr cell, its stored      *)
(* discriminant, and the constructor / destructor calls of the payloads;   *)
(* and quick::DebugStream (debug_stream.hpp): its formatting state under   *)
(* BranchStart / BranchEnd and the container operator<< overloads.         *)
(***************************************************************************)
EXTENDS Integers, FiniteSets, Sequences, TLC

\* ---------------------------------------------------------------- bounds
\* sizeof...(Ts): the number of alternatives of the instantiation checked
NumTypes == 3
\* constructor arguments are drawn from 0..MaxArg
MaxArg == 1
\* payloads constructed over one run (caps the constructor counter)
MaxConstruct == 3

Indices == 0 .. (NumTypes - 1)
Args == 0 .. MaxArg
PayloadIds == 1 .. MaxConstruct

\* containers streamed into a DebugStream nest at most MaxNest deep
MaxNest == 1
\* sequences and sets have at most MaxLen elements
MaxLen == 2
\* maps have at most MaxEntries entries
MaxEntries == 1
\* BranchStart calls open at once, and the cap of the depth counter
MaxDepth == 2

\* ----------------------------------------------------------------- state
VARIABLES
  ptr,             \* std::unique_ptr<AbstractBaseType>: nullptr or the owned cell
  selected_type_,  \* std::size_t selected_type_
  ctorCount,       \* TypeWrapper constructors completed so far
  dtor,            \* payload id -> number of times its destructor ran
  alive,           \* FALSE once the variant itself has been destroyed
  last,            \* the most recent call, the cell it viewed or released, whether it
                   \* built a payload, and what it returned
  prev,            \* the call before that
  inflight,        \* an at() that is between two of its statements
  ds,              \* DebugStream: is_inline, indentation_space, depth
  nest,            \* the BranchStart calls not yet closed by a BranchEnd
  dlast            \* the most recent DebugStream call

vars == <<ptr, selected_type_, ctorCount, dtor, alive, last, prev,
          inflight, ds, nest, dlast>>

\* what the variant's member functions never touch once they have returned
aux == <<inflight, ds, nest, dlast>>

\* the variant's own fields and the payload bookkeeping, without the call log
core == <<ptr, selected_type_, ctorCount, dtor, alive>>

nullptr == [null |-> TRUE]

\* what a reinterpreting cast may read from a cell of another type
Garbage == Args \cup {-1}

NoCall == [op |-> "none", index |-> -1, args |-> -1, outcome |-> "ok",
           cell |-> nullptr, built |-> FALSE, ret |-> -1, retb |-> FALSE]

\* ------------------------------------------------------------ ErasedCell
\* a wrapper whose constructor drops its arguments (object_() instead of
\* object_(args...))
TypeWrapper_default(id, index, args) == [id |-> id, type |-> index, object_ |-> 0]

\* new TypeWrapper<NthType<index>>(args...): object_ is built from args
TypeWrapper(id, index, args) == [id |-> id, type |-> index, object_ |-> args]

\* a base without the virtual destructor's effect: the payload is never destroyed
DestroyCell_leak(p) == dtor

\* a release that deletes the last payload built without looking at the
\* pointer (a raw delete that is never followed by ptr = nullptr)
DestroyCell_stale(p) ==
  IF ctorCount = 0 THEN dtor ELSE [dtor EXCEPT ![ctorCount] = @ + 1]

\* virtual ~AbstractBaseType(): deleting cell p runs its payload's destructor
DestroyCell(p) ==
  IF p = nullptr THEN dtor ELSE [dtor EXCEPT ![p.id] = @ + 1]

\* static_cast<NthTypeWrapper<index>&>(*p).object_ : the values the cast can
\* yield; undefined when p is null or the cell was built as another type
ViewAs(p, index) ==
  IF p # nullptr /\ p.type = index THEN {p.object_} ELSE Garbage

\* ---------------------------------------------------------------- queries
\* selected_type() without the test of the pointer
selected_type_raw == selected_type_

\* bool initialized() const
initialized == ptr # nullptr

\* std::size_t selected_type() const
selected_type == IF ptr = nullptr THEN NumTypes ELSE selected_type_

\* at() that only tests the stored discriminant
at_rebuild_indexonly(index) == selected_type_ # index

\* at() that only tests the pointer
at_rebuild_nullonly(index) == ptr = nullptr

\* at() that rebuilds on every call
at_rebuild_always(index) == TRUE

\* the condition of at(): build a new cell?
at_rebuild(index) == ptr = nullptr \/ selected_type_ # index

\* at() without the line selected_type_ = index
at_selected_stale(index) == selected_type_

\* the discriminant at() stores
at_selected(index) == index

\* at() const that only tests the pointer
at_const_invalid_nullonly(index) == ptr = nullptr

\* the condition of at() const: refuse the read?
at_const_invalid(index) == ptr = nullptr \/ selected_type_ # index

\* clear() that leaves the pointer alone
clear_target_keep == ptr

\* the pointer clear() installs
clear_target == nullptr

\* ----------------------------------------------------------- DebugStream
\* uint32_t depth is held as its residue mod 2^32 in [-2^31, 2^31), so that
\* ++ and -- are +1 and -1 and the value 2^32 - 1 that 0 wraps to is -1
\* the values SetIndentation is called with
IndentChoices == {2, 4}

\* no at() is between two of its statements
NoFrame == [pc |-> "idle", index |-> -1, args |-> -1, fresh |-> nullptr]

\* bool is_inline = false; uint8_t indentation_space = 2; uint32_t depth = 0
DsInit == [is_inline |-> FALSE, indentation_space |-> 2, depth |-> 0]

\* a value handed to operator<<: a scalar, a sequence or set (items are its
\* elements), a map (items are its entries), a map entry or pair (items are
\* first and second)
Scalar == [kind |-> "scalar", items |-> <<>>]

RECURSIVE ValuesUpTo(_)
ValuesUpTo(n) ==
  IF n = 0 THEN {Scalar}
  ELSE LET sub == ValuesUpTo(n - 1)
           entries == {[kind |-> "entry", items |-> <<k, v>>] :
                         k \in sub, v \in sub}
           lists(S, max) == UNION {[1 .. len -> S] : len \in 0 .. max}
       IN  sub
           \cup {[kind |-> "seq", items |-> l] : l \in lists(sub, MaxLen)}
           \cup {[kind |-> "map", items |-> l] :
                   l \in lists(entries, MaxEntries)}
           \cup {[kind |-> "pair", items |-> <<a, b>>] : a \in sub, b \in sub}

Values == ValuesUpTo(MaxNest)

\* the stream while a call runs: its fields, whether an exception is
\* propagating, and whether the call has changed is_inline so far
Running(d) == [is_inline |-> d.is_inline,
               indentation_space |-> d.indentation_space,
               depth |-> d.depth, threw |-> FALSE, changed |-> FALSE]

\* the stream's fields once the call has returned or thrown
Fields(r) == [is_inline |-> r.is_inline,
              indentation_space |-> r.indentation_space,
              depth |-> r.depth]

\* void BranchStart(char c)
BranchStartOp(d) ==
  IF d.threw THEN d
  ELSE IF ~d.is_inline THEN [d EXCEPT !.depth = @ + 1]
  ELSE d

\* BranchEnd without the test of depth == 0
BranchEndOp_nocheck(d) ==
  IF d.threw THEN d
  ELSE IF ~d.is_inline THEN [d EXCEPT !.depth = @ - 1]
  ELSE d

\* void BranchEnd(char c)
BranchEndOp(d) ==
  IF d.threw THEN d
  ELSE IF ~d.is_inline
       THEN IF d.depth = 0
            THEN [d EXCEPT !.threw = TRUE]
            ELSE [d EXCEPT !.depth = @ - 1]
  ELSE d

\* ds.is_inline = value
AssignInline(d, value) ==
  [d EXCEPT !.is_inline = value, !.changed = @ \/ d.is_inline # value]

RECURSIVE Stream(_, _), StreamSeqItems(_, _, _), StreamMapItems(_, _, _)

\* the loop of operator<<(DebugStream&, vector / list / set), from item k on
StreamSeqItems(d, items, k) ==
  IF k > Len(items) THEN d
  ELSE StreamSeqItems(Stream(d, items[k]), items, k + 1)

\* the loop of operator<<(DebugStream&, map / unordered_map), from entry k on
StreamMapItems(d, items, k) ==
  IF k > Len(items) \/ d.threw THEN d
  ELSE LET keyed == Stream(AssignInline(d, TRUE), items[k].items[1])
           after == IF keyed.threw THEN keyed
                    ELSE AssignInline(keyed, FALSE)
       IN  StreamMapItems(Stream(after, items[k].items[2]), items, k + 1)

\* ds << v, by the overload v's type selects
Stream(d, v) ==
  IF d.threw THEN d
  ELSE CASE v.kind = "scalar" -> d
         [] v.kind = "seq" ->
              IF Len(v.items) = 0 THEN d
              ELSE BranchEndOp(StreamSeqItems(BranchStartOp(d), v.items, 1))
         [] v.kind = "map" ->
              IF Len(v.items) = 0 THEN d
              ELSE BranchEndOp(StreamMapItems(BranchStartOp(d), v.items, 1))
         [] v.kind \in {"pair", "entry"} ->
              BranchEndOp(Stream(Stream(BranchStartOp(d), v.items[1]),
                                 v.items[2]))

\* no BranchStart is open
NoOpen == [depth |-> -1, clean |-> FALSE]

\* kind and size: the kind and the number of items of the value streamed
NoDsCall == [op |-> "none", threw |-> FALSE, before |-> DsInit,
             kind |-> "none", size |-> 0, open |-> NoOpen]

\* the open BranchStart calls after a call that changed is_inline, or did not
Marked(frames, changed) ==
  IF ~changed THEN frames
  ELSE [k \in 1 .. Len(frames) |-> [frames[k] EXCEPT !.clean = FALSE]]

\* ------------------------------------------------------------------ Init
Init ==
  /\ ptr = nullptr
  /\ selected_type_ = 0
  /\ ctorCount = 0
  /\ dtor = [k \in PayloadIds |-> 0]
  /\ alive = TRUE
  /\ last = NoCall
  /\ prev = NoCall
  /\ inflight = NoFrame
  /\ ds = DsInit
  /\ nest = <<>>
  /\ dlast = NoDsCall

\* --------------------------------------------------------------- actions
\* at() that releases the old cell before it builds the new one
\* (ptr.reset(); ptr.reset(new ...))
at_destroy_first(index, args, throws) ==
  /\ alive
  /\ prev' = last
  /\ UNCHANGED aux
  /\ alive' = alive
  /\ IF at_rebuild(index)
     THEN /\ ctorCount < MaxConstruct
          /\ dtor' = DestroyCell(ptr)
          /\ IF throws
             THEN /\ ptr' = nullptr
                  /\ UNCHANGED <<selected_type_, ctorCount>>
                  /\ last' = [op |-> "at", index |-> index, args |-> args,
                              outcome |-> "ctor_throw", cell |-> nullptr,
                              built |-> FALSE, ret |-> -1, retb |-> FALSE]
             ELSE /\ ptr' = TypeWrapper(ctorCount + 1, index, args)
                  /\ ctorCount' = ctorCount + 1
                  /\ selected_type_' = index
                  /\ last' = [op |-> "at", index |-> index, args |-> args,
                              outcome |-> "ok", cell |-> ptr',
                              built |-> TRUE, ret |-> args, retb |-> FALSE]
     ELSE /\ ~throws
          /\ UNCHANGED <<ptr, ctorCount, dtor>>
          /\ selected_type_' = index
          /\ last' = [op |-> "at", index |-> index, args |-> args,
                      outcome |-> "ok", cell |-> ptr,
                      built |-> FALSE, ret |-> ptr.object_, retb |-> FALSE]

\* NthType<index>& at(Args&&... args); throws: the allocation or the payload
\* constructor raises
at(index, args, throws) ==
  /\ alive
  /\ prev' = last
  /\ UNCHANGED aux
  /\ alive' = alive
  /\ IF at_rebuild(index)
     THEN /\ ctorCount < MaxConstruct
          /\ IF throws
             THEN /\ UNCHANGED <<ptr, selected_type_, ctorCount, dtor>>
                  /\ last' = [op |-> "at", index |-> index, args |-> args,
                              outcome |-> "ctor_throw", cell |-> nullptr,
                              built |-> FALSE, ret |-> -1, retb |-> FALSE]
             ELSE /\ ptr' = TypeWrapper(ctorCount + 1, index, args)
                  /\ ctorCount' = ctorCount + 1
                  /\ dtor' = DestroyCell(ptr)
                  /\ selected_type_' = at_selected(index)
                  /\ \E r \in ViewAs(ptr', index) :
                       last' = [op |-> "at", index |-> index, args |-> args,
                                outcome |-> "ok", cell |-> ptr',
                                built |-> TRUE, ret |-> r, retb |-> FALSE]
     ELSE /\ ~throws
          /\ UNCHANGED <<ptr, ctorCount, dtor>>
          /\ selected_type_' = at_selected(index)
          /\ \E r \in ViewAs(ptr, index) :
               last' = [op |-> "at", index |-> index, args |-> args,
                        outcome |-> "ok", cell |-> ptr,
                        built |-> FALSE, ret |-> r, retb |-> FALSE]

\* at() const with the get-or-construct body of the non-const overload
at_const_lazy(index) ==
  /\ alive
  /\ prev' = last
  /\ UNCHANGED aux
  /\ alive' = alive
  /\ IF at_const_invalid(index)
     THEN /\ ctorCount < MaxConstruct
          /\ ptr' = TypeWrapper(ctorCount + 1, index, 0)
          /\ ctorCount' = ctorCount + 1
          /\ dtor' = DestroyCell(ptr)
          /\ selected_type_' = index
     ELSE UNCHANGED <<ptr, selected_type_, ctorCount, dtor>>
  /\ last' = [op |-> "at_const", index |-> index, args |-> -1,
              outcome |-> "ok", cell |-> ptr',
              built |-> FALSE, ret |-> ptr'.object_, retb |-> FALSE]

\* const NthType<index>& at() const
at_const(index) ==
  /\ alive
  /\ prev' = last
  /\ UNCHANGED aux
  /\ UNCHANGED core
  /\ IF at_const_invalid(index)
     THEN last' = [op |-> "at_const", index |-> index, args |-> -1,
                   outcome |-> "runtime_error", cell |-> nullptr,
                   built |-> FALSE, ret |-> -1, retb |-> FALSE]
     ELSE \E r \in ViewAs(ptr, index) :
            last' = [op |-> "at_const", index |-> index, args |-> -1,
                     outcome |-> "ok", cell |-> ptr,
                     built |-> FALSE, ret |-> r, retb |-> FALSE]

\* void clear()
clear ==
  /\ alive
  /\ prev' = last
  /\ UNCHANGED aux
  /\ ptr' = clear_target
  /\ dtor' = DestroyCell(ptr)
  /\ UNCHANGED <<selected_type_, ctorCount, alive>>
  /\ last' = [NoCall EXCEPT !.op = "clear", !.cell = ptr]

\* a call of initialized()
call_initialized ==
  /\ alive
  /\ prev' = last
  /\ UNCHANGED aux
  /\ UNCHANGED core
  /\ last' = [NoCall EXCEPT !.op = "initialized", !.retb = initialized]

\* a call of selected_type()
call_selected_type ==
  /\ alive
  /\ prev' = last
  /\ UNCHANGED aux
  /\ UNCHANGED core
  /\ last' = [NoCall EXCEPT !.op = "selected_type", !.ret = selected_type]

\* a destructor that does not release the cell (a raw owning pointer)
destroy_noRelease ==
  /\ alive
  /\ prev' = last
  /\ UNCHANGED aux
  /\ alive' = FALSE
  /\ ptr' = nullptr
  /\ UNCHANGED <<selected_type_, ctorCount, dtor>>
  /\ last' = [NoCall EXCEPT !.op = "destroy"]

\* ~variant(): the unique_ptr member releases the cell
destroy ==
  /\ alive
  /\ prev' = last
  /\ UNCHANGED aux
  /\ alive' = FALSE
  /\ ptr' = nullptr
  /\ dtor' = DestroyCell(ptr)
  /\ UNCHANGED <<selected_type_, ctorCount>>
  /\ last' = [NoCall EXCEPT !.op = "destroy"]

\* ------------------------------------------- at(), statement by statement
\* the variant's fields and call log
variantVars == <<ptr, selected_type_, ctorCount, dtor, alive, last, prev>>

streamVars == <<ds, nest, dlast>>

Idle == inflight.pc = "idle"

\* new NthTypeWrapper<index>(args...), the argument of ptr.reset, has returned
at_new(index, args) ==
  /\ alive /\ Idle
  /\ at_rebuild(index)
  /\ ctorCount < MaxConstruct
  /\ ctorCount' = ctorCount + 1
  /\ inflight' = [pc |-> "reset", index |-> index, args |-> args,
                  fresh |-> TypeWrapper(ctorCount + 1, index, args)]
  /\ UNCHANGED <<ptr, selected_type_, dtor, alive, last, prev>>
  /\ UNCHANGED streamVars

\* ptr.reset(p): ptr takes p, then the cell ptr held is deleted
at_reset ==
  /\ inflight.pc = "reset"
  /\ ptr' = inflight.fresh
  /\ dtor' = DestroyCell(ptr)
  /\ inflight' = [inflight EXCEPT !.pc = "select"]
  /\ UNCHANGED <<selected_type_, ctorCount, alive, last, prev>>
  /\ UNCHANGED streamVars

\* selected_type_ = index; return static_cast<...>(*ptr).object_
at_return ==
  /\ inflight.pc = "select"
  /\ selected_type_' = at_selected(inflight.index)
  /\ prev' = last
  /\ \E r \in ViewAs(ptr, inflight.index) :
       last' = [op |-> "at", index |-> inflight.index,
                args |-> inflight.args, outcome |-> "ok", cell |-> ptr,
                built |-> TRUE, ret |-> r, retb |-> FALSE]
  /\ inflight' = NoFrame
  /\ UNCHANGED <<ptr, ctorCount, dtor, alive>>
  /\ UNCHANGED streamVars

\* the calls of at() that have no intermediate state: the reuse, and the
\* new-expression that throws
at_direct(index, args, throws) ==
  /\ Idle
  /\ throws \/ ~at_rebuild(index)
  /\ at(index, args, throws)

\* --------------------------------------------------- DebugStream's calls
\* ds.BranchStart(c)
BranchStart ==
  /\ Len(nest) < MaxDepth
  /\ ds.depth < MaxDepth
  /\ ds' = Fields(BranchStartOp(Running(ds)))
  /\ nest' = Append(nest, [depth |-> ds.depth, clean |-> TRUE])
  /\ dlast' = [NoDsCall EXCEPT !.op = "BranchStart", !.before = ds]
  /\ UNCHANGED variantVars
  /\ UNCHANGED inflight

\* ds.BranchEnd(c)
BranchEnd ==
  LET r == BranchEndOp(Running(ds)) IN
  /\ ds' = Fields(r)
  /\ nest' = IF nest = <<>> THEN nest ELSE SubSeq(nest, 1, Len(nest) - 1)
  /\ dlast' = [NoDsCall EXCEPT !.op = "BranchEnd", !.before = ds,
                               !.threw = r.threw,
                               !.open = IF nest = <<>> THEN NoOpen
                                        ELSE nest[Len(nest)]]
  /\ UNCHANGED variantVars
  /\ UNCHANGED inflight

\* ds.SetInline(value)
SetInline(value) ==
  /\ ds' = Fields(AssignInline(Running(ds), value))
  /\ nest' = Marked(nest, AssignInline(Running(ds), value).changed)
  /\ dlast' = [NoDsCall EXCEPT !.op = "SetInline", !.before = ds]
  /\ UNCHANGED variantVars
  /\ UNCHANGED inflight

\* ds.SetIndentation(value)
SetIndentation(value) ==
  /\ ds' = [ds EXCEPT !.indentation_space = value]
  /\ nest' = nest
  /\ dlast' = [NoDsCall EXCEPT !.op = "SetIndentation", !.before = ds]
  /\ UNCHANGED variantVars
  /\ UNCHANGED inflight

\* ds << v for a container or pair v
StreamValue(v) ==
  LET r == Stream(Running(ds), v) IN
  /\ ds' = Fields(r)
  /\ nest' = Marked(nest, r.changed)
  /\ dlast' = [NoDsCall EXCEPT !.op = "stream", !.before = ds,
                               !.threw = r.threw, !.kind = v.kind,
                               !.size = Len(v.items)]
  /\ UNCHANGED variantVars
  /\ UNCHANGED inflight

Next ==
  \/ \E index \in Indices, args \in Args, throws \in BOOLEAN :
       at(index, args, throws)
  \/ \E index \in Indices : at_const(index)
  \/ clear
  \/ call_initialized
  \/ call_selected_type
  \/ destroy

Spec == Init /\ [][Next]_vars


\* the variant with at() taken one statement at a time
NextSteps ==
  \/ \E index \in Indices, args \in Args : at_new(index, args)
  \/ at_reset
  \/ at_return
  \/ \E index \in Indices, args \in Args, throws \in BOOLEAN :
       at_direct(index, args, throws)
  \/ \E index \in Indices : Idle /\ at_const(index)
  \/ Idle /\ clear
  \/ Idle /\ call_initialized
  \/ Idle /\ call_selected_type
  \/ Idle /\ destroy

SpecSteps == Init /\ [][NextSteps]_vars

\* one DebugStream and its callers
NextStream ==
  \/ BranchStart
  \/ BranchEnd
  \/ \E value \in BOOLEAN : SetInline(value)
  \/ \E value \in IndentChoices : SetIndentation(value)
  \/ \E v \in Values \ {Scalar} : StreamValue(v)

SpecStream == Init /\ [][NextStream]_vars

\* ------------------------------------------------------- state vocabulary
\* the cell is present and its payload was constructed as alternative i
HoldsType(i) == ptr # nullptr /\ ptr.type = i

\* Holding(i) as a caller observes it
Holding(i) == initialized /\ selected_type = i

\* Empty as a caller observes it
Empty == ~initialized /\ selected_type = NumTypes

\* a call of at() that returned normally
AtOk(c) == c.op = "at" /\ c.outcome = "ok"

\* ------------------------------------------------------------------ C1
\* C1: whenever the most recent call is an at<i>(args) that returned normally
\* (from Empty, from Holding(i) or from Holding(j)), selected_type() == i and
\* initialized() is true.
C1_AtSetsActiveIndex ==
  AtOk(last) => (selected_type = last.index /\ initialized)

\* at<j>(..) returned normally right after at<i>(..) with i # j
C1_Witness ==
  /\ AtOk(prev) /\ AtOk(last)
  /\ prev.index # last.index
  /\ selected_type = last.index

\* ------------------------------------------------------------------ C2
\* C2: a call at<i>(args2) made in Holding(i) constructs nothing, destroys
\* nothing, keeps the cell, and returns the payload already stored; after
\* at<i>(args1) the call at<i>(args2) returns what at<i>(args1) returned.
C2_NoOpReuseOnMatch ==
  [][ /\ (last'.op = "at" /\ Holding(last'.index)) =>
           /\ last'.outcome = "ok"
           /\ ptr' = ptr
           /\ ctorCount' = ctorCount
           /\ dtor' = dtor
           /\ last'.cell = ptr
           /\ last'.ret = ptr.object_
      /\ (AtOk(last) /\ last'.op = "at" /\ last'.index = last.index) =>
           /\ last'.outcome = "ok"
           /\ last'.ret = last.ret
           /\ last'.cell = last.cell
    ]_vars

\* at<i>(a1) built a payload, then at<i>(a2) with a2 # a1 returned a1's value
C2_Witness ==
  /\ AtOk(prev) /\ prev.built
  /\ AtOk(last) /\ last.index = prev.index
  /\ last.args # prev.args
  /\ last.ret = prev.args
  /\ ~last.built

\* ------------------------------------------------------------------ C3
\* C3: when at<j>(b) returns normally right after at<i>(a) returned normally,
\* i # j, then selected_type() == j, the payload held after at<i>(a) has had
\* its destructor run exactly once (and no other destructor ran), and the
\* held payload is a new one of alternative j built from b.
C3_SwitchDestroysPrior ==
  [][ (AtOk(last) /\ AtOk(last') /\ last'.index # last.index) =>
        /\ selected_type' = last'.index
        /\ ptr = last.cell
        /\ dtor[last.cell.id] = 0
        /\ dtor' = [dtor EXCEPT ![last.cell.id] = 1]
        /\ ptr' # nullptr
        /\ ptr'.id # last.cell.id
        /\ ptr'.type = last'.index
        /\ ptr'.object_ = last'.args
        /\ last'.ret = last'.args
    ]_vars

\* at<i>(a) then at<j>(b), i # j, a # b: the first payload destroyed once
C3_Witness ==
  /\ AtOk(prev) /\ AtOk(last)
  /\ prev.index # last.index
  /\ prev.args # last.args
  /\ dtor[prev.cell.id] = 1
  /\ ptr.object_ = last.args

\* ------------------------------------------------------------------ C4
\* C4: in every state of a live variant and for every index i, at<i>() const
\* refuses the read exactly when the cell is absent or holds another
\* alternative; a call of at<i>() const throws in exactly those states, and
\* when it returns it returns the value of the current (latest) payload.
C4_ReadonlyFailsIffNotHolding ==
  /\ alive => \A i \in Indices : at_const_invalid(i) <=> ~HoldsType(i)
  /\ last.op = "at_const" =>
       /\ (last.outcome = "runtime_error") <=> ~HoldsType(last.index)
       /\ (last.outcome = "ok") <=> HoldsType(last.index)
       /\ last.outcome = "ok" =>
            /\ last.cell = ptr
            /\ last.ret = ptr.object_
            /\ ptr.id = ctorCount

\* at<i>() const threw right after at<j>(..) succeeded, j # i
C4_Witness ==
  /\ AtOk(prev)
  /\ last.op = "at_const" /\ last.outcome = "runtime_error"
  /\ prev.index # last.index
  /\ initialized

\* ------------------------------------------------------------------ C5
\* C5: when at<i>() const is called right after an at<i>(v) that built a
\* payload (the variant was Empty or held another alternative), it returns
\* normally and its value equals v.
C5_RoundTrip ==
  (/\ AtOk(prev) /\ prev.built
   /\ last.op = "at_const" /\ last.index = prev.index) =>
     /\ last.outcome = "ok"
     /\ last.ret = prev.args

\* at<i>(MaxArg) replaced a payload, and at<i>() const read MaxArg back
C5_Witness ==
  /\ AtOk(prev) /\ prev.built /\ prev.args = MaxArg
  /\ prev.cell.id > 1
  /\ last.op = "at_const" /\ last.index = prev.index
  /\ last.outcome = "ok" /\ last.ret = MaxArg

\* ------------------------------------------------------------------ C6
\* every at<i>() const would refuse the read
AllReadsFail == \A i \in Indices : at_const_invalid(i)

\* C6: a clear() from any state ends with initialized() false,
\* selected_type() == N and every at<i>() const refusing; that stays so
\* through every later call until an at<i>(args) returns normally, and an
\* at<i>() const called meanwhile throws.
C6_ClearEndsEmpty ==
  [][ /\ last'.op = "clear" => (Empty' /\ AllReadsFail')
      /\ (Empty /\ AllReadsFail /\ alive' /\ ~AtOk(last')) =>
           (Empty' /\ AllReadsFail')
      /\ (Empty /\ last'.op = "at_const") => last'.outcome = "runtime_error"
    ]_vars

\* a payload of alternative i was cleared, and at<i>() const then threw
\* although the stored discriminant still reads i
C6_Witness ==
  /\ prev.op = "clear"
  /\ last.op = "at_const" /\ last.outcome = "runtime_error"
  /\ ctorCount > 0 /\ dtor[ctorCount] = 1
  /\ selected_type_ = last.index
  /\ Empty

\* ------------------------------------------------------------------ C7
\* C7: a clear() that directly follows a clear(), and a clear() of an Empty
\* variant, change nothing: pointer, discriminant, constructor count and
\* every destructor count stay as they were.
C7_ClearIdempotent ==
  [][ /\ (last.op = "clear" /\ last'.op = "clear") => UNCHANGED core
      /\ (Empty /\ last'.op = "clear") => UNCHANGED core
    ]_vars

\* clear(); clear() after a payload had been built: destroyed once only
C7_Witness ==
  /\ prev.op = "clear" /\ last.op = "clear"
  /\ ctorCount > 0
  /\ \A k \in 1 .. ctorCount : dtor[k] = 1

\* ------------------------------------------------------------------ C8
\* C8: a call of at<i>() const (returning or throwing), initialized() or
\* selected_type() leaves pointer, payload, discriminant and the constructor
\* and destructor counts unchanged.
C8_ReadsHaveNoEffect ==
  [][ last'.op \in {"at_const", "initialized", "selected_type"} =>
        UNCHANGED core
    ]_vars

\* a read that succeeded and then a read that threw, the payload still held
C8_Witness ==
  /\ prev.op = "at_const" /\ prev.outcome = "ok"
  /\ last.op = "at_const" /\ last.outcome = "runtime_error"
  /\ ptr = prev.cell
  /\ dtor[ptr.id] = 0

\* ------------------------------------------------------------------ C9
\* the variant is in Holding(i): cell of alternative i, discriminant i
HoldingState(i) == ptr # nullptr /\ ptr.type = i /\ selected_type_ = i

\* C9: for a live variant, initialized() is true iff the state is some
\* Holding(i); selected_type() is N iff the cell is absent and lies in
\* [0, N) otherwise; initialized() <=> selected_type() # N; the variant is
\* Empty until the first payload is built; and the calls return these values.
C9_QueriesReflectState ==
  /\ alive =>
       /\ initialized <=> (\E i \in Indices : HoldingState(i))
       /\ (selected_type = NumTypes) <=> (ptr = nullptr)
       /\ ptr # nullptr => selected_type \in Indices
       /\ initialized <=> (selected_type # NumTypes)
       /\ ctorCount = 0 => Empty
  /\ last.op = "initialized" =>
       (last.retb <=> (\E i \in Indices : HoldingState(i)))
  /\ last.op = "selected_type" =>
       /\ (last.ret = NumTypes) <=> (ptr = nullptr)
       /\ ptr # nullptr => (last.ret \in Indices /\ HoldingState(last.ret))

\* selected_type() returned N after a clear() although selected_type_ is i
C9_Witness ==
  /\ prev.op = "clear"
  /\ last.op = "selected_type" /\ last.ret = NumTypes
  /\ ctorCount > 0
  /\ selected_type_ \in Indices

\* ----------------------------------------------------------------- C10
\* C10: whenever the cell is present, the stored discriminant is the index
\* of the alternative the cell was constructed as; and every at<i>(..) or
\* at<i>() const that returned applied its cast to a cell of alternative i
\* and returned that cell's value.
C10_DiscriminantMatchesCell ==
  /\ (alive /\ ptr # nullptr) =>
       (ptr.type \in Indices /\ selected_type_ = ptr.type)
  /\ (last.op \in {"at", "at_const"} /\ last.outcome = "ok") =>
       /\ last.cell # nullptr
       /\ last.cell.type = last.index
       /\ last.ret = last.cell.object_

\* the last payload the bound allows was built by a switch and read back
C10_Witness ==
  /\ AtOk(prev) /\ prev.built
  /\ prev.cell.id = MaxConstruct
  /\ last.op = "at_const" /\ last.outcome = "ok"
  /\ \E k \in 1 .. (MaxConstruct - 1) : dtor[k] = 1

\* ----------------------------------------------------------------- C11
\* the payloads constructed and not yet destroyed
LivePayloads == {k \in 1 .. ctorCount : dtor[k] = 0}

\* C11 as stated: at every step, also between the statements of at(), at
\* most one payload is live.
C11_AtMostOneLiveAtEveryStep == Cardinality(LivePayloads) <= 1

\* C11 amended: outside at() the live payloads are exactly the held cell (at
\* most one); inside an at<j>() that switches from Holding(i) the new payload
\* is built first, so old and new are both live at the one step between the
\* new-expression and ptr.reset, never more than two, and the old one is
\* destroyed by ptr.reset before at() returns.
C11_OldDestroyedAfterNewBuilt ==
  /\ Cardinality(LivePayloads) <= 2
  /\ (alive /\ Idle) =>
       LivePayloads = (IF ptr = nullptr THEN {} ELSE {ptr.id})
  /\ inflight.pc = "reset" =>
       LivePayloads = {inflight.fresh.id}
                        \cup (IF ptr = nullptr THEN {} ELSE {ptr.id})
  /\ inflight.pc = "select" =>
       (ptr = inflight.fresh /\ LivePayloads = {ptr.id})
  /\ Cardinality(LivePayloads) = 2 =>
       (inflight.pc = "reset" /\ ptr # nullptr /\ ptr.type # inflight.index)

\* the new payload of a switch is built and the old one is still alive
C11_Witness ==
  /\ inflight.pc = "reset"
  /\ ptr # nullptr
  /\ dtor[ptr.id] = 0
  /\ inflight.fresh.id = ptr.id + 1
  /\ Cardinality(LivePayloads) = 2

\* ----------------------------------------------------------------- C12
\* C12 as stated: whenever the cell is absent, the stored selected_type_ is N.
C12_AbsentCellStoresSentinel ==
  (alive /\ ptr = nullptr) => selected_type_ = NumTypes

\* C12 amended: whenever the cell is absent, selected_type() reports N, while
\* the stored selected_type_ is never N: it is 0 on a variant that never built
\* a payload and, after a clear() of Holding(i), still i.
C12_AbsentCellReportsSentinel ==
  (alive /\ ptr = nullptr) =>
    /\ selected_type = NumTypes
    /\ selected_type_ \in Indices
    /\ ctorCount = 0 => selected_type_ = 0
    /\ (last.op = "clear" /\ last.cell # nullptr) =>
         selected_type_ = last.cell.type

\* clear() released a payload of the last alternative: selected_type()
\* reports N and selected_type_ still holds N - 1
C12_Witness ==
  /\ last.op = "clear" /\ last.cell # nullptr
  /\ last.cell.type = NumTypes - 1
  /\ selected_type_ = NumTypes - 1
  /\ selected_type = NumTypes

\* ----------------------------------------------------------------- C13
\* C13: an at<i>(b) that returns normally on a variant without a cell has
\* built a new payload of alternative i from b and returns it, whatever
\* selected_type_ holds (the index cleared last, or the initial 0), and it
\* destroys nothing.
C13_EmptyAlwaysConstructs ==
  [][ (ptr = nullptr /\ AtOk(last')) =>
        /\ last'.built
        /\ ptr' # nullptr
        /\ ptr'.id = ctorCount + 1
        /\ ptr'.type = last'.index
        /\ ptr'.object_ = last'.args
        /\ last'.cell = ptr'
        /\ last'.ret = last'.args
        /\ dtor' = dtor
    ]_vars

\* at<i>(a); clear(); at<i>(b) with b # a: the payload is the one built from b
C13_Witness ==
  /\ prev.op = "clear" /\ prev.cell # nullptr
  /\ AtOk(last) /\ last.built
  /\ last.index = prev.cell.type
  /\ last.args # prev.cell.object_
  /\ ptr.object_ = last.args
  /\ dtor[prev.cell.id] = 1

\* ----------------------------------------------------------------- C14
\* C14: between calls, no payload has been destroyed twice or before it was
\* constructed; the live payloads are exactly the held cell (one in Holding,
\* none in Empty) and none once the variant is destroyed; and a destructor
\* only runs in a clear(), in ~variant() or in an at() that switches type.
C14_ExclusiveOwnership ==
  /\ [](/\ \A k \in PayloadIds :
             /\ dtor[k] <= 1
             /\ k > ctorCount => dtor[k] = 0
        /\ alive => LivePayloads = (IF ptr = nullptr THEN {} ELSE {ptr.id})
        /\ alive => Cardinality(LivePayloads) = (IF initialized THEN 1 ELSE 0)
        /\ ~alive => LivePayloads = {})
  /\ [][ dtor' # dtor =>
           \/ last'.op \in {"clear", "destroy"}
           \/ /\ AtOk(last') /\ last'.built
              /\ ptr # nullptr /\ ptr.type # last'.index
       ]_vars

\* the variant was destroyed after every payload the bound allows was built:
\* each was destroyed once
C14_Witness ==
  /\ ~alive
  /\ ctorCount = MaxConstruct
  /\ \A k \in PayloadIds : dtor[k] = 1

\* ----------------------------------------------------------------- C15
\* C15: an at<i>(args) whose new-expression throws changes nothing: the cell
\* is still held and not destroyed, the discriminant and the counters are as
\* before; and an at<j>() const for the active index j right after it returns
\* the held value.
C15_FailedConstructKeepsState ==
  [][ /\ (last'.op = "at" /\ last'.outcome = "ctor_throw") => UNCHANGED core
      /\ (/\ last.op = "at" /\ last.outcome = "ctor_throw"
          /\ initialized
          /\ last'.op = "at_const" /\ last'.index = selected_type) =>
           /\ last'.outcome = "ok"
           /\ last'.ret = ptr.object_
           /\ dtor[ptr.id] = 0
    ]_vars

\* at<i>() threw while alternative j # i was held; at<j>() const then read
\* the old payload
C15_Witness ==
  /\ prev.op = "at" /\ prev.outcome = "ctor_throw"
  /\ last.op = "at_const" /\ last.outcome = "ok"
  /\ prev.index # last.index
  /\ ptr = last.cell
  /\ dtor[ptr.id] = 0

\* ----------------------------------------------------------------- C16
\* C16: when ds << v for a container or pair v returns normally, is_inline,
\* indentation_space and depth are what they were before the call; and
\* streaming a non-empty map into an inline stream does not throw and leaves
\* the stream inline.
C16_StreamingKeepsFormat ==
  dlast.op = "stream" =>
    /\ ~dlast.threw => ds = dlast.before
    /\ (/\ dlast.before.is_inline
        /\ dlast.kind = "map"
        /\ dlast.size > 0) =>
         (~dlast.threw /\ ds.is_inline)

\* ----------------------------------------------------------------- C17
\* C17: depth never drops below 0; a BranchEnd called in non-inline mode at
\* depth 0 throws and leaves depth at 0; and a BranchEnd that closes a
\* BranchStart since which is_inline has not been changed does not throw and
\* leaves depth at the value it had before that BranchStart.
C17_DepthNeverUnderflows ==
  /\ [](ds.depth >= 0)
  /\ [][ dlast'.op = "BranchEnd" =>
           /\ (~ds.is_inline /\ ds.depth = 0) =>
                (dlast'.threw /\ ds'.depth = 0)
           /\ (nest # <<>> /\ nest[Len(nest)].clean) =>
                (~dlast'.threw /\ ds'.depth = nest[Len(nest)].depth)
       ]_vars

\* an inner BranchStart / BranchEnd pair closed inside an open outer one, in
\* non-inline mode: depth went 1 -> 2 -> 1
C17_Witness ==
  /\ dlast.op = "BranchEnd" /\ ~dlast.threw
  /\ dlast.open.clean
  /\ ~ds.is_inline
  /\ dlast.before.depth = 2
  /\ ds.depth = 1 /\ dlast.open.depth = 1
  /\ Len(nest) = 1 /\ nest[1].clean

====
